---- MODULE Spec2Model ----
(***************************************************************************)
(* The Shop component (query-state reconciliation): the applied filters,   *)
(* the draft filters, the URL search parameters, the two effects that keep *)
(* them in step, the product-page fetches the applied filters drive, and   *)
(* the tag / author facet lists with their sessionStorage cache.           *)
(*                                                                         *)
(* Strings that the code inspects character by character (search text,     *)
(* tag and author ids, numeric URL values) are sequences of one-character  *)
(* strings.  A nullable value is a sequence of length 0 (null / key        *)
(* absent) or 1.  A draft price is a JS number, kept in thousandths of a   *)
(* currency unit so that Math.round(value * 100) has something to round.   *)
(***************************************************************************)
EXTENDS Integers, Sequences, FiniteSets, TLC

\* ------------------------------------------------------------------ bounds
\* user / navigation events per behaviour
MaxSteps == 2
\* product-page fetches issued per behaviour
MaxFetches == 3
\* the largest totalPages the server answers with
MaxTotalPages == 2

\* --------------------------------------------------------------- nullables
None == <<>>
Some(x) == <<x>>
IsNone(o) == Len(o) = 0
Val(o) == o[1]

\* ----------------------------------------------------------------- strings
RECURSIVE TrimStart(_)
TrimStart(s) ==
  IF Len(s) > 0 /\ Head(s) = " " THEN TrimStart(Tail(s)) ELSE s

RECURSIVE TrimEnd(_)
TrimEnd(s) ==
  IF Len(s) > 0 /\ s[Len(s)] = " " THEN TrimEnd(SubSeq(s, 1, Len(s) - 1)) ELSE s

\* String.prototype.trim
Trim(s) == TrimEnd(TrimStart(s))

LowerChar(c) ==
  CASE c = "A" -> "a"
    [] c = "B" -> "b"
    [] OTHER -> c

\* String.prototype.toLowerCase
ToLowerCase(s) == [i \in 1..Len(s) |-> LowerChar(s[i])]

\* String.prototype.split(`,`): the pieces between commas, empty pieces kept
RECURSIVE SplitFrom(_, _, _)
SplitFrom(s, i, cur) ==
  IF i > Len(s) THEN <<cur>>
  ELSE IF s[i] = "," THEN <<cur>> \o SplitFrom(s, i + 1, <<>>)
  ELSE SplitFrom(s, i + 1, Append(cur, s[i]))

Split(s) == SplitFrom(s, 1, <<>>)

\* Array.prototype.join(`,`)
RECURSIVE Join(_)
Join(parts) ==
  IF Len(parts) = 0 THEN <<>>
  ELSE IF Len(parts) = 1 THEN parts[1]
  ELSE parts[1] \o <<",">> \o Join(Tail(parts))

\* Collation weights of String.prototype.localeCompare for the characters
\* the model uses: whitespace < punctuation < digits < letters, and at equal
\* letters lower case before upper case.
PrimaryWeight(c) ==
  CASE c = " " -> 0
    [] c = "," -> 1
    [] c = "-" -> 2
    [] c = "0" -> 10 [] c = "1" -> 11 [] c = "2" -> 12 [] c = "3" -> 13
    [] c = "4" -> 14 [] c = "5" -> 15 [] c = "6" -> 16 [] c = "7" -> 17
    [] c = "8" -> 18 [] c = "9" -> 19
    [] c \in {"a", "A"} -> 20
    [] c \in {"b", "B"} -> 21
    [] c = "u" -> 22
    [] OTHER -> 23

CaseWeight(c) == IF c \in {"A", "B"} THEN 1 ELSE 0

RECURSIVE LexLess(_, _)
LexLess(a, b) ==
  IF Len(b) = 0 THEN FALSE
  ELSE IF Len(a) = 0 THEN TRUE
  ELSE IF Head(a) # Head(b) THEN Head(a) < Head(b)
  ELSE LexLess(Tail(a), Tail(b))

\* a.localeCompare(b) < 0
LocaleLess(a, b) ==
  LET pa == [i \in 1..Len(a) |-> PrimaryWeight(a[i])]
      pb == [i \in 1..Len(b) |-> PrimaryWeight(b[i])]
      ca == [i \in 1..Len(a) |-> CaseWeight(a[i])]
      cb == [i \in 1..Len(b) |-> CaseWeight(b[i])]
  IN  LexLess(pa, pb) \/ (pa = pb /\ LexLess(ca, cb))

Range(s) == {s[i] : i \in 1..Len(s)}

\* [...set].sort((a, b) => a.localeCompare(b))
RECURSIVE SortByLocale(_)
SortByLocale(S) ==
  IF S = {} THEN <<>>
  ELSE LET m == CHOOSE x \in S : \A y \in S \ {x} : LocaleLess(x, y)
       IN  <<m>> \o SortByLocale(S \ {m})

\* Array.prototype.filter(Boolean) on strings: empty strings dropped
RECURSIVE FilterNonEmpty(_)
FilterNonEmpty(parts) ==
  IF Len(parts) = 0 THEN <<>>
  ELSE IF Len(Head(parts)) = 0 THEN FilterNonEmpty(Tail(parts))
  ELSE <<Head(parts)>> \o FilterNonEmpty(Tail(parts))

\* ----------------------------------------------------------------- numbers
Digits == <<"0", "1", "2", "3", "4", "5", "6", "7", "8", "9">>
IsDigit(c) == \E d \in 1..10 : Digits[d] = c
DigitValue(c) == (CHOOSE d \in 1..10 : Digits[d] = c) - 1

RECURSIVE DigitsValue(_, _)
DigitsValue(s, acc) ==
  IF Len(s) = 0 THEN acc ELSE DigitsValue(Tail(s), acc * 10 + DigitValue(Head(s)))

\* Number(raw) followed by Number.isSafeInteger: the integer raw denotes, or
\* None when Number(raw) is NaN or not an integer.  Number() skips
\* surrounding whitespace and reads the empty string as 0.
SafeIntegerOf(raw) ==
  LET t == Trim(raw)
      neg == Len(t) > 0 /\ Head(t) = "-"
      body == IF neg THEN Tail(t) ELSE t
  IN  IF Len(t) = 0 THEN Some(0)
      ELSE IF Len(body) = 0 \/ \E i \in 1..Len(body) : ~IsDigit(body[i]) THEN None
      ELSE Some(IF neg THEN 0 - DigitsValue(body, 0) ELSE DigitsValue(body, 0))

\* String(n) for a non-negative integer
RECURSIVE ToDigits(_)
ToDigits(n) ==
  IF n < 10 THEN <<Digits[n + 1]>> ELSE ToDigits(n \div 10) \o <<Digits[(n % 10) + 1]>>

\* ------------------------------------------------------- program constants
VALID_SORT_KEYS == {"date", "priceAsc", "priceDesc", "name", "priceCurrency", "priceUpdated"}
DefaultSortKey == "date"
DefaultPage == 1
DefaultPageSize == 24
DEFAULT_PAGE_STATE == [index |-> 1, totalPages |-> 0]
maxButtons == 8
FILTERS_CACHE_TTL_MS == 10 * 60 * 1000

\* ------------------------------------------------------------ canonicalizer
normalizeTagSelection(tags) == SortByLocale(Range(tags))

normalizeIdSelection(values) == SortByLocale(Range(values))

\* zero is taken over instead of the fallback
parsePositiveInt_AcceptsZero(raw, fallback) ==
  IF IsNone(raw) \/ Len(Val(raw)) = 0 THEN fallback
  ELSE LET parsed == SafeIntegerOf(Val(raw))
       IN  IF IsNone(parsed) \/ Val(parsed) < 0 THEN fallback ELSE Val(parsed)

parsePositiveInt(raw, fallback) ==
  IF IsNone(raw) \/ Len(Val(raw)) = 0 THEN fallback
  ELSE LET parsed == SafeIntegerOf(Val(raw))
       IN  IF IsNone(parsed) \/ Val(parsed) < 1 THEN fallback ELSE Val(parsed)

\* zero is rejected like a negative number
parseNullableNonNegativeInt_RejectsZero(raw) ==
  IF IsNone(raw) \/ Len(Trim(Val(raw))) = 0 THEN None
  ELSE LET parsed == SafeIntegerOf(Val(raw))
       IN  IF IsNone(parsed) \/ Val(parsed) < 1 THEN None ELSE parsed

parseNullableNonNegativeInt(raw) ==
  IF IsNone(raw) \/ Len(Trim(Val(raw))) = 0 THEN None
  ELSE LET parsed == SafeIntegerOf(Val(raw))
       IN  IF IsNone(parsed) \/ Val(parsed) < 0 THEN None ELSE parsed

parseSortKey(raw) ==
  IF IsNone(raw) \/ Val(raw) = "" THEN DefaultSortKey
  ELSE IF Val(raw) \in VALID_SORT_KEYS THEN Val(raw) ELSE DefaultSortKey

\* a negative draft price is rounded like any other
normalizePriceToCents_NoClamp(value) ==
  IF IsNone(value) THEN None
  ELSE Some((Val(value) + 5) \div 10)

\* value is a nullable draft price in thousandths; the result is nullable cents.
\* (A NaN draft price does not arise: the inputs store Number(text) of a
\* non-empty number field, or null.)
normalizePriceToCents(value) ==
  IF IsNone(value) THEN None
  ELSE IF Val(value) < 0 THEN Some(0)
  ELSE Some((Val(value) + 5) \div 10)   \* Math.round(value * 100), halves up

\* -------------------------------------------------------------- query codec
\* URLSearchParams: one nullable raw value per key the component reads, and
\* whether keys it does not read are present.  Two such records are equal
\* exactly when their toString() forms are equal.
EmptyParams ==
  [search |-> None, tags |-> None, authors |-> None, minPriceCents |-> None,
   maxPriceCents |-> None, sortBy |-> None, page |-> None, pageSize |-> None,
   extra |-> FALSE]

MapTrim(parts) == [i \in 1..Len(parts) |-> Trim(parts[i])]
MapTrimLower(parts) == [i \in 1..Len(parts) |-> ToLowerCase(Trim(parts[i]))]

parseAppliedFiltersFromSearchParams(searchParams_) ==
  LET tagsRaw == searchParams_.tags
      tags == IF IsNone(tagsRaw) \/ Len(Val(tagsRaw)) = 0 THEN <<>>
              ELSE normalizeTagSelection(FilterNonEmpty(MapTrimLower(Split(Val(tagsRaw)))))
      authorsRaw == searchParams_.authors
      authorUserIds == IF IsNone(authorsRaw) \/ Len(Val(authorsRaw)) = 0 THEN <<>>
                       ELSE normalizeIdSelection(FilterNonEmpty(MapTrim(Split(Val(authorsRaw)))))
  IN  [search |-> IF IsNone(searchParams_.search) THEN <<>> ELSE Trim(Val(searchParams_.search)),
       selectedTags |-> tags,
       selectedAuthorUserIds |-> authorUserIds,
       minPriceCents |-> parseNullableNonNegativeInt(searchParams_.minPriceCents),
       maxPriceCents |-> parseNullableNonNegativeInt(searchParams_.maxPriceCents),
       sortBy |-> parseSortKey(searchParams_.sortBy),
       page |-> parsePositiveInt(searchParams_.page, DefaultPage),
       pageSize |-> parsePositiveInt(searchParams_.pageSize, DefaultPageSize)]

\* the page and the page size are always written
buildSearchParamsFromAppliedFilters_AlwaysPage(filters) ==
  [search |-> IF Len(filters.search) > 0 THEN Some(filters.search) ELSE None,
   tags |-> IF Len(filters.selectedTags) > 0 THEN Some(Join(filters.selectedTags)) ELSE None,
   authors |-> IF Len(filters.selectedAuthorUserIds) > 0
               THEN Some(Join(filters.selectedAuthorUserIds)) ELSE None,
   minPriceCents |-> IF ~IsNone(filters.minPriceCents)
                     THEN Some(ToDigits(Val(filters.minPriceCents))) ELSE None,
   maxPriceCents |-> IF ~IsNone(filters.maxPriceCents)
                     THEN Some(ToDigits(Val(filters.maxPriceCents))) ELSE None,
   sortBy |-> IF filters.sortBy # "date" THEN Some(filters.sortBy) ELSE None,
   page |-> Some(ToDigits(filters.page)),
   pageSize |-> Some(ToDigits(filters.pageSize)),
   extra |-> FALSE]

buildSearchParamsFromAppliedFilters(filters) ==
  [search |-> IF Len(filters.search) > 0 THEN Some(filters.search) ELSE None,
   tags |-> IF Len(filters.selectedTags) > 0 THEN Some(Join(filters.selectedTags)) ELSE None,
   authors |-> IF Len(filters.selectedAuthorUserIds) > 0
               THEN Some(Join(filters.selectedAuthorUserIds)) ELSE None,
   minPriceCents |-> IF ~IsNone(filters.minPriceCents)
                     THEN Some(ToDigits(Val(filters.minPriceCents))) ELSE None,
   maxPriceCents |-> IF ~IsNone(filters.maxPriceCents)
                     THEN Some(ToDigits(Val(filters.maxPriceCents))) ELSE None,
   sortBy |-> IF filters.sortBy # "date" THEN Some(filters.sortBy) ELSE None,
   page |-> IF filters.page # 1 THEN Some(ToDigits(filters.page)) ELSE None,
   pageSize |-> IF filters.pageSize # 24 THEN Some(ToDigits(filters.pageSize)) ELSE None,
   extra |-> FALSE]

areFiltersEqual(a, b) ==
  /\ a.search = b.search
  /\ Join(a.selectedTags) = Join(b.selectedTags)
  /\ Join(a.selectedAuthorUserIds) = Join(b.selectedAuthorUserIds)
  /\ a.minPriceCents = b.minPriceCents
  /\ a.maxPriceCents = b.maxPriceCents
  /\ a.sortBy = b.sortBy
  /\ a.page = b.page
  /\ a.pageSize = b.pageSize

\* cents / 100 as a draft price (thousandths of a currency unit)
CentsToDraftPrice(cents) == IF IsNone(cents) THEN None ELSE Some(Val(cents) * 10)

\* -------------------------------------------------------------- facet cache
\* A ShopFilterOption is [value, count]; value is a sequence of characters.
\* the comparator of sortTagOptionsByCount is negative: a sorts before b
OptionBefore(a, b) ==
  IF b.count # a.count THEN b.count - a.count < 0 ELSE LocaleLess(a.value, b.value)

\* x goes before the first element it sorts before (Array.prototype.sort is stable)
RECURSIVE InsertOption(_, _)
InsertOption(sorted, x) ==
  IF Len(sorted) = 0 THEN <<x>>
  ELSE IF OptionBefore(x, Head(sorted)) THEN <<x>> \o sorted
  ELSE <<Head(sorted)>> \o InsertOption(Tail(sorted), x)

RECURSIVE SortOptionsInto(_, _)
SortOptionsInto(sorted, rest) ==
  IF Len(rest) = 0 THEN sorted
  ELSE SortOptionsInto(InsertOption(sorted, Head(rest)), Tail(rest))

sortTagOptionsByCount(tags) == SortOptionsInto(<<>>, tags)

\* sessionStorage as the component meets it.  kind is
\*   "unavailable": getItem and setItem throw;
\*   "absent":      no item under FILTERS_CACHE_KEY (getItem returns null);
\*   "corrupt":     the item is not JSON, or JSON that is not an object;
\*   "entry":       the item is a JSON object; tags and expiresAt are nullable
\*                  (None: the member is missing or of another type).
StorageItem(kind, tags, expiresAt) == [kind |-> kind, tags |-> tags, expiresAt |-> expiresAt]
StorageUnavailable == StorageItem("unavailable", None, None)
StorageAbsent == StorageItem("absent", None, None)
StorageCorrupt == StorageItem("corrupt", None, None)
StorageEntry(tags, expiresAt) == StorageItem("entry", Some(tags), Some(expiresAt))

\* the expiry test lets an entry live one tick less
CacheEntryLive_Strict(expiresAt, time) ==
  ~(IsNone(expiresAt) \/ Val(expiresAt) = 0 \/ Val(expiresAt) <= time)

\* !(!parsed.expiresAt || parsed.expiresAt < Date.now())
CacheEntryLive(expiresAt, time) ==
  ~(IsNone(expiresAt) \/ Val(expiresAt) = 0 \/ Val(expiresAt) < time)

\* readCachedTags() with sessionStorage in state storage at time Date.now() = time
readCachedTags(storage, time) ==
  IF storage.kind # "entry" THEN <<>>                      \* threw, or !raw
  ELSE IF ~CacheEntryLive(storage.expiresAt, time) THEN <<>>
  ELSE IF IsNone(storage.tags) THEN <<>>                    \* !Array.isArray
  ELSE sortTagOptionsByCount(Val(storage.tags))

\* the entry keeps the expiry it had
WrittenEntry_KeepsExpiry(storage, tags, time) ==
  StorageItem("entry", Some(tags), storage.expiresAt)

\* the JSON writeCachedTags stores
WrittenEntry(storage, tags, time) == StorageEntry(tags, time + FILTERS_CACHE_TTL_MS)

\* sessionStorage after writeCachedTags(tags) at time Date.now() = time
writeCachedTags(storage, tags, time) ==
  IF storage.kind = "unavailable" THEN storage              \* setItem threw: ignored
  ELSE WrittenEntry(storage, tags, time)

\* -------------------------------------------------------------------- state
VARIABLES
  searchParams,               \* useSearchParams(): the URL's query
  appliedFilters,             \* useState<AppliedFilters>
  draftSearch,
  draftSelectedTags,
  draftSelectedAuthorUserIds,
  draftMinPrice,
  draftMaxPrice,
  draftSortBy,
  draftPageSize,
  products,                   \* the fetch whose response.data is shown (0: none yet)
  pageState,
  isLoading,
  error,
  requests,                   \* the fetchShopProductsPage calls made, in issue order
  pending,                    \* the calls not yet settled
  isCancelled,                \* the calls whose loadPage closure has isCancelled = true
  availableTags,
  availableAuthors,
  isLoadingFilters,
  filterRequests,             \* the fetchShopFilters calls made
  filtersPending,             \* a fetchShopFilters call is not yet settled
  cancelled,                  \* the loadFilters closure's flag
  sessionStorage,             \* the item under FILTERS_CACHE_KEY
  now,                        \* Date.now()
  mounted,
  mountEffectsDue,            \* the effects with no dependencies have not run yet
  searchParamsChanged,        \* searchParams differs from the effects' recorded dependency
  appliedFiltersChanged,      \* appliedFilters differs from the effects' recorded dependency
  historyPushes,              \* setSearchParams(next, { replace: false }) calls made
  steps,                      \* user and navigation events so far
  lastEvent,                  \* the user or navigation event handled last
  lastOp                      \* the handler or callback that ran last, and its argument

draftVars ==
  <<draftSearch, draftSelectedTags, draftSelectedAuthorUserIds, draftMinPrice,
    draftMaxPrice, draftSortBy, draftPageSize>>
resultVars == <<products, pageState, isLoading, error>>
fetchVars == <<requests, pending, isCancelled>>
facetVars ==
  <<availableTags, availableAuthors, isLoadingFilters, filterRequests, filtersPending,
    cancelled, sessionStorage, now, mountEffectsDue>>
effectVars == <<searchParamsChanged, appliedFiltersChanged>>
vars ==
  <<searchParams, appliedFilters, draftVars, resultVars, fetchVars, facetVars, mounted,
    effectVars, historyPushes, steps, lastEvent, lastOp>>

NoError == "null"
\* the catch block leaves the error as it is
FetchError_NotSet == NoError
\* caughtError.message, or the fallback text
FetchError == "Failed to load products"

\* ------------------------------------------------------------------- inputs
\* URLs the user can arrive at or navigate to (link, bookmark, back/forward)
ExternalParams ==
  { EmptyParams,
    [EmptyParams EXCEPT !.tags = Some(<<"a">>)],
    [EmptyParams EXCEPT !.tags = Some(<<"b", ",", "A", ",", "b">>), !.page = Some(<<"2">>)],
    [EmptyParams EXCEPT !.page = Some(<<"1">>)],
    [EmptyParams EXCEPT !.minPriceCents = Some(<<"5">>), !.maxPriceCents = Some(<<"2">>)],
    [EmptyParams EXCEPT !.search = Some(<<" ", "a">>), !.sortBy = Some("bogus"),
                        !.pageSize = Some(<<"1", "0">>)],
    [EmptyParams EXCEPT !.page = Some(<<"x">>), !.minPriceCents = Some(<<"-", "1">>),
                        !.authors = Some(<<"u">>), !.extra = TRUE] }

\* the page sizes the page-size select offers (lines 488-490)
AllowedPageSizes == { 24, 48, 72 }

\* URLs the component is first rendered at
InitialParams ==
  { EmptyParams,
    [EmptyParams EXCEPT !.tags = Some(<<"b">>), !.page = Some(<<"2">>)],
    [EmptyParams EXCEPT !.tags = Some(<<"a", ",", "b">>), !.minPriceCents = Some(<<"5">>)],
    [EmptyParams EXCEPT !.search = Some(<<"a", " ">>), !.page = Some(<<"1">>)] }

SearchInputs == { <<"a">>, <<" ", "a", " ">> }
TagInputs == { <<"a">>, <<"b">> }
AuthorInputs == { <<"u">> }
\* Number(event.target.value) or null: 2.00, 1.004, -1.00
MinPriceInputs == { None, Some(2000) }
MaxPriceInputs == { Some(1004), Some(0 - 1000) }
SortInputs == { "name" }
PageSizeInputs == { 48 }
PageInputs == 0..(MaxTotalPages + 1)

OptionA == [value |-> <<"a">>, count |-> 1]
OptionB == [value |-> <<"b">>, count |-> 2]
OptionC == [value |-> <<"c">>, count |-> 2]
AuthorU == [value |-> <<"u">>, count |-> 1, label |-> "U"]
\* what fetchShopFilters resolves with
FilterResponses == { [tags |-> <<OptionA, OptionB>>, authors |-> <<AuthorU>>] }
\* Date.now() when the component is constructed, and the time a facet fetch takes
StartTimes == { 1000000 }
Latencies == { 1 }
\* sessionStorage on a first visit, and as a session can have left it
InitialStorage == { StorageAbsent }
SessionStorages ==
  { StorageAbsent, StorageUnavailable, StorageCorrupt,
    StorageItem("entry", Some(<<OptionA>>), None),
    StorageItem("entry", None, Some(1000001)),
    StorageEntry(<<>>, 1000001),
    StorageEntry(<<OptionA, OptionC, OptionB>>, 1000001),
    StorageEntry(<<OptionC, OptionA>>, 1000000),
    StorageEntry(<<OptionC>>, 999999) }

\* --------------------------------------------------------- derived (render)
draftMinPriceCents == normalizePriceToCents(draftMinPrice)
draftMaxPriceCents == normalizePriceToCents(draftMaxPrice)

hasInvalidPriceRange ==
  /\ ~IsNone(draftMinPriceCents)
  /\ ~IsNone(draftMaxPriceCents)
  /\ Val(draftMinPriceCents) > Val(draftMaxPriceCents)

Max(a, b) == IF a > b THEN a ELSE b

\* the window's start is not moved back when its end is cut at totalPages
pageIndexes_NoReclamp ==
  IF pageState.totalPages <= 0 THEN <<>>
  ELSE LET half == maxButtons \div 2
           start == Max(1, pageState.index - half)
           end == IF start + maxButtons - 1 > pageState.totalPages
                  THEN pageState.totalPages ELSE start + maxButtons - 1
       IN  [idx \in 1..(end - start + 1) |-> start + idx - 1]

\* Array.from({ length: end - start + 1 }, (_, idx) => start + idx), idx from 0
pageIndexes ==
  IF pageState.totalPages <= 0 THEN <<>>
  ELSE LET half == maxButtons \div 2
           start0 == Max(1, pageState.index - half)
           end0 == start0 + maxButtons - 1
           end == IF end0 > pageState.totalPages THEN pageState.totalPages ELSE end0
           start == IF end0 > pageState.totalPages THEN Max(1, end - maxButtons + 1)
                    ELSE start0
       IN  [idx \in 1..(end - start + 1) |-> start + idx - 1]

\* the draft tag list is compared as it stands, unsorted
hasPendingFilterChanges_OrderSensitive ==
  \/ Trim(draftSearch) # appliedFilters.search
  \/ Join(draftSelectedTags) # Join(appliedFilters.selectedTags)
  \/ Join(normalizeIdSelection(draftSelectedAuthorUserIds))
       # Join(normalizeIdSelection(appliedFilters.selectedAuthorUserIds))
  \/ draftMinPriceCents # appliedFilters.minPriceCents
  \/ draftMaxPriceCents # appliedFilters.maxPriceCents
  \/ draftSortBy # appliedFilters.sortBy
  \/ draftPageSize # appliedFilters.pageSize

hasPendingFilterChanges ==
  \/ Trim(draftSearch) # appliedFilters.search
  \/ Join(normalizeTagSelection(draftSelectedTags))
       # Join(normalizeTagSelection(appliedFilters.selectedTags))
  \/ Join(normalizeIdSelection(draftSelectedAuthorUserIds))
       # Join(normalizeIdSelection(appliedFilters.selectedAuthorUserIds))
  \/ draftMinPriceCents # appliedFilters.minPriceCents
  \/ draftMaxPriceCents # appliedFilters.maxPriceCents
  \/ draftSortBy # appliedFilters.sortBy
  \/ draftPageSize # appliedFilters.pageSize

\* --------------------------------------------------------------------- init
\* The state after the first render: the useState initialisers have run, no
\* effect has.  Every effect is due on mount.
Constructed(params, storage, time) ==
  /\ searchParams = params
  /\ sessionStorage = storage
  /\ now = time
  /\ availableTags = readCachedTags(storage, time)
  /\ availableAuthors = <<>>
  /\ isLoadingFilters = FALSE
  /\ filterRequests = 0
  /\ filtersPending = FALSE
  /\ cancelled = FALSE
  /\ mountEffectsDue = TRUE
  /\ LET initialFilters == parseAppliedFiltersFromSearchParams(searchParams)
     IN  /\ appliedFilters = initialFilters
         /\ draftSearch = initialFilters.search
         /\ draftSelectedTags = initialFilters.selectedTags
         /\ draftSelectedAuthorUserIds = initialFilters.selectedAuthorUserIds
         /\ draftMinPrice = CentsToDraftPrice(initialFilters.minPriceCents)
         /\ draftMaxPrice = CentsToDraftPrice(initialFilters.maxPriceCents)
         /\ draftSortBy = initialFilters.sortBy
         /\ draftPageSize = initialFilters.pageSize
  /\ products = 0
  /\ pageState = DEFAULT_PAGE_STATE
  /\ isLoading = TRUE
  /\ error = NoError
  /\ requests = <<>>
  /\ pending = {}
  /\ isCancelled = {}
  /\ mounted = TRUE
  /\ searchParamsChanged = TRUE
  /\ appliedFiltersChanged = TRUE
  /\ historyPushes = 0
  /\ steps = 0
  /\ lastEvent = [op |-> "mount", arg |-> 0]
  /\ lastOp = [op |-> "mount", arg |-> 0]

Init ==
  \E params \in InitialParams, storage \in InitialStorage, time \in StartTimes :
    Constructed(params, storage, time)

\* the component is constructed later in a session, over whatever the storage holds
FacetInit ==
  \E storage \in SessionStorages, time \in StartTimes :
    Constructed(EmptyParams, storage, time)

\* A user or navigation event is handled when the component is mounted and the
\* previous event's renders and effects have run to completion (React flushes
\* them synchronously inside the event).
Settled == ~searchParamsChanged /\ ~appliedFiltersChanged
CanHandleEvent == mounted /\ Settled /\ steps < MaxSteps

Event(op, arg) ==
  /\ CanHandleEvent
  /\ steps' = steps + 1
  /\ lastEvent' = [op |-> op, arg |-> arg]
  /\ lastOp' = [op |-> op, arg |-> arg]
  /\ UNCHANGED facetVars

\* ------------------------------------------------------------- draft edits
SetDraftSearch(value) ==
  /\ Event("setDraftSearch", 0)
  /\ draftSearch' = value
  /\ UNCHANGED <<searchParams, appliedFilters, draftSelectedTags, draftSelectedAuthorUserIds,
                 draftMinPrice, draftMaxPrice, draftSortBy, draftPageSize, resultVars,
                 fetchVars, mounted, effectVars, historyPushes>>

Includes(seq, x) == \E i \in 1..Len(seq) : seq[i] = x

\* the toggle leaves the selection as it is
Toggle_Keeps(current, x) == current

\* current.includes(x) ? current.filter(value => value !== x) : [...current, x]
Toggle(current, x) ==
  IF Includes(current, x) THEN SelectSeq(current, LAMBDA value : value # x)
  ELSE Append(current, x)

toggleTag(tag) ==
  /\ Event("toggleTag", 0)
  /\ draftSelectedTags' = Toggle(draftSelectedTags, tag)
  /\ UNCHANGED <<searchParams, appliedFilters, draftSearch, draftSelectedAuthorUserIds,
                 draftMinPrice, draftMaxPrice, draftSortBy, draftPageSize, resultVars,
                 fetchVars, mounted, effectVars, historyPushes>>

toggleAuthor(authorUserId) ==
  /\ Event("toggleAuthor", 0)
  /\ draftSelectedAuthorUserIds' = Toggle(draftSelectedAuthorUserIds, authorUserId)
  /\ UNCHANGED <<searchParams, appliedFilters, draftSearch, draftSelectedTags,
                 draftMinPrice, draftMaxPrice, draftSortBy, draftPageSize, resultVars,
                 fetchVars, mounted, effectVars, historyPushes>>

SetDraftMinPrice(value) ==
  /\ Event("setDraftMinPrice", 0)
  /\ draftMinPrice' = value
  /\ UNCHANGED <<searchParams, appliedFilters, draftSearch, draftSelectedTags,
                 draftSelectedAuthorUserIds, draftMaxPrice, draftSortBy, draftPageSize,
                 resultVars, fetchVars, mounted, effectVars, historyPushes>>

SetDraftMaxPrice(value) ==
  /\ Event("setDraftMaxPrice", 0)
  /\ draftMaxPrice' = value
  /\ UNCHANGED <<searchParams, appliedFilters, draftSearch, draftSelectedTags,
                 draftSelectedAuthorUserIds, draftMinPrice, draftSortBy, draftPageSize,
                 resultVars, fetchVars, mounted, effectVars, historyPushes>>

SetDraftSortBy(value) ==
  /\ Event("setDraftSortBy", 0)
  /\ draftSortBy' = value
  /\ UNCHANGED <<searchParams, appliedFilters, draftSearch, draftSelectedTags,
                 draftSelectedAuthorUserIds, draftMinPrice, draftMaxPrice, draftPageSize,
                 resultVars, fetchVars, mounted, effectVars, historyPushes>>

SetDraftPageSize(value) ==
  /\ Event("setDraftPageSize", 0)
  /\ draftPageSize' = value
  /\ UNCHANGED <<searchParams, appliedFilters, draftSearch, draftSelectedTags,
                 draftSelectedAuthorUserIds, draftMinPrice, draftMaxPrice, draftSortBy,
                 resultVars, fetchVars, mounted, effectVars, historyPushes>>

\* ------------------------------------------------- commit, reset, navigation
\* the commit keeps the applied page
AppliedFromDraft_KeepsPage ==
  [search |-> Trim(draftSearch),
   selectedTags |-> normalizeTagSelection(draftSelectedTags),
   selectedAuthorUserIds |-> normalizeIdSelection(draftSelectedAuthorUserIds),
   minPriceCents |-> draftMinPriceCents,
   maxPriceCents |-> draftMaxPriceCents,
   sortBy |-> draftSortBy,
   page |-> appliedFilters.page,
   pageSize |-> draftPageSize]

\* the object applyFilters passes to setAppliedFilters
AppliedFromDraft ==
  [search |-> Trim(draftSearch),
   selectedTags |-> normalizeTagSelection(draftSelectedTags),
   selectedAuthorUserIds |-> normalizeIdSelection(draftSelectedAuthorUserIds),
   minPriceCents |-> draftMinPriceCents,
   maxPriceCents |-> draftMaxPriceCents,
   sortBy |-> draftSortBy,
   page |-> 1,
   pageSize |-> draftPageSize]

\* the reset keeps the applied page
ClearedFilters_KeepsPage ==
  [search |-> <<>>, selectedTags |-> <<>>, selectedAuthorUserIds |-> <<>>,
   minPriceCents |-> None, maxPriceCents |-> None, sortBy |-> "date",
   page |-> appliedFilters.page, pageSize |-> 24]

\* the object clearFilters passes to setAppliedFilters
ClearedFilters ==
  [search |-> <<>>, selectedTags |-> <<>>, selectedAuthorUserIds |-> <<>>,
   minPriceCents |-> None, maxPriceCents |-> None, sortBy |-> "date", page |-> 1,
   pageSize |-> 24]

\* the range check is missing
applyFiltersSets_Unchecked == TRUE

\* applyFilters sets a fresh object whenever it gets past the range check
applyFiltersSets == ~hasInvalidPriceRange

applyFilters ==
  /\ Event("applyFilters", 0)
  /\ IF applyFiltersSets
     THEN /\ appliedFilters' = AppliedFromDraft
          /\ appliedFiltersChanged' = TRUE
     ELSE UNCHANGED <<appliedFilters, appliedFiltersChanged>>
  /\ UNCHANGED <<searchParams, draftVars, resultVars, fetchVars, mounted,
                 searchParamsChanged, historyPushes>>

\* (clearFilters also empties tagSearch and authorSearch, the text filters of
\* the facet pickers, which no modelled code reads)
\* (the argument recorded is whether the draft price range was invalid)
clearFilters ==
  /\ Event("clearFilters", IF hasInvalidPriceRange THEN 1 ELSE 0)
  /\ draftSearch' = <<>>
  /\ draftSelectedTags' = <<>>
  /\ draftSelectedAuthorUserIds' = <<>>
  /\ draftMinPrice' = None
  /\ draftMaxPrice' = None
  /\ draftSortBy' = "date"
  /\ draftPageSize' = 24
  /\ appliedFilters' = ClearedFilters
  /\ appliedFiltersChanged' = TRUE
  /\ UNCHANGED <<searchParams, resultVars, fetchVars, mounted, searchParamsChanged,
                 historyPushes>>

\* the upper bound is not checked
goToPageAccepts_NoUpperBound(page) == ~(page < 1)

goToPageAccepts(page) ==
  ~(page < 1 \/ (pageState.totalPages > 0 /\ page > pageState.totalPages))

goToPage(page) ==
  /\ Event("goToPage", page)
  /\ IF goToPageAccepts(page)
     THEN /\ appliedFilters' = [appliedFilters EXCEPT !.page = page]
          /\ appliedFiltersChanged' = TRUE
     ELSE UNCHANGED <<appliedFilters, appliedFiltersChanged>>
  /\ UNCHANGED <<searchParams, draftVars, resultVars, fetchVars, mounted,
                 searchParamsChanged, historyPushes>>

\* The URL's query is changed from outside the component (a link, back/forward):
\* useSearchParams() returns a new object when the query string differs.
Navigate(params) ==
  /\ Event("navigate", 0)
  /\ params # searchParams
  /\ searchParams' = params
  /\ searchParamsChanged' = TRUE
  /\ UNCHANGED <<appliedFilters, draftVars, resultVars, fetchVars, mounted,
                 appliedFiltersChanged, historyPushes>>

\* ------------------------------------------------------------------ effects
\* the effect never takes the URL's query
UrlToStateApplied_KeepsCurrent(current, fromUrl) == current

\* setAppliedFilters(current => (areFiltersEqual(current, fromUrl) ? current : fromUrl))
UrlToStateApplied(current, fromUrl) ==
  IF areFiltersEqual(current, fromUrl) THEN current ELSE fromUrl

\* the guard is missing: every run of the effect writes
StateToUrlWrites_Always(filters, params) == TRUE

\* the state-to-URL effect's guard: next !== current
StateToUrlWrites(filters, params) ==
  buildSearchParamsFromAppliedFilters(filters) # params

\* the cleanup forgets to set the flag
CleanupLoadPage_NoCancel == isCancelled

\* the loadPage effect's cleanup: the previous run's closure gets isCancelled = true
CleanupLoadPage == IF Len(requests) > 0 THEN isCancelled \cup {Len(requests)} ELSE isCancelled

\* loadPage leaves the flag as it was
IsLoadingOnIssue_Unset == isLoading

\* loadPage starts with setIsLoading(true)
IsLoadingOnIssue == TRUE

\* One render's effects, in declaration order, each run when one of its
\* dependencies changed (the loadFilters effect has none: it runs after the
\* first render only).  They read the searchParams and appliedFilters of
\* that render; the state they set is seen by the next render.
EffectPass ==
  /\ mounted
  /\ searchParamsChanged \/ appliedFiltersChanged
  /\ appliedFiltersChanged => Len(requests) < MaxFetches
  /\ LET fromUrl == parseAppliedFiltersFromSearchParams(searchParams)
         writes == StateToUrlWrites(appliedFilters, searchParams)
     IN  /\ IF searchParamsChanged
            THEN /\ appliedFilters' = UrlToStateApplied(appliedFilters, fromUrl)
                 /\ draftSearch' = fromUrl.search
                 /\ draftSelectedTags' = fromUrl.selectedTags
                 /\ draftSelectedAuthorUserIds' = fromUrl.selectedAuthorUserIds
                 /\ draftMinPrice' = CentsToDraftPrice(fromUrl.minPriceCents)
                 /\ draftMaxPrice' = CentsToDraftPrice(fromUrl.maxPriceCents)
                 /\ draftSortBy' = fromUrl.sortBy
                 /\ draftPageSize' = fromUrl.pageSize
            ELSE UNCHANGED <<appliedFilters, draftVars>>
         /\ IF writes
            THEN /\ searchParams' = buildSearchParamsFromAppliedFilters(appliedFilters)
                 /\ historyPushes' = historyPushes + 1
            ELSE UNCHANGED <<searchParams, historyPushes>>
         /\ IF appliedFiltersChanged
            THEN /\ isCancelled' = CleanupLoadPage
                 /\ requests' = Append(requests, appliedFilters)
                 /\ pending' = pending \cup {Len(requests) + 1}
                 /\ isLoading' = IsLoadingOnIssue
                 /\ error' = NoError
            ELSE UNCHANGED <<fetchVars, isLoading, error>>
         /\ IF mountEffectsDue
            THEN /\ isLoadingFilters' = TRUE
                 /\ filterRequests' = filterRequests + 1
                 /\ filtersPending' = TRUE
            ELSE UNCHANGED <<isLoadingFilters, filterRequests, filtersPending>>
         /\ mountEffectsDue' = FALSE
         /\ searchParamsChanged' = writes
         /\ appliedFiltersChanged' =
              (searchParamsChanged /\ UrlToStateApplied(appliedFilters, fromUrl) # appliedFilters)
  /\ lastOp' = [op |-> "effects", arg |-> 0]
  /\ UNCHANGED <<products, pageState, mounted, steps, lastEvent, availableTags,
                 availableAuthors, cancelled, sessionStorage, now>>

\* ---------------------------------------------------------- fetch outcomes
\* the finally block leaves the flag as it was
IsLoadingOnSettle_Stuck == isLoading

\* loadPage's finally block: setIsLoading(false)
IsLoadingOnSettle == FALSE

CanSettle(gen) == gen \in pending /\ (mounted => Settled)

\* fetchShopProductsPage resolves: response.page echoes the requested page and
\* carries the server's page count
FetchSucceed(gen, totalPages) ==
  /\ CanSettle(gen)
  /\ pending' = pending \ {gen}
  /\ IF gen \notin isCancelled
     THEN /\ products' = gen
          /\ pageState' = [index |-> requests[gen].page, totalPages |-> totalPages]
          /\ isLoading' = IsLoadingOnSettle
     ELSE UNCHANGED <<products, pageState, isLoading>>
  /\ lastOp' = [op |-> "fetchSucceed", arg |-> gen]
  /\ UNCHANGED facetVars
  /\ UNCHANGED <<searchParams, appliedFilters, draftVars, error, requests, isCancelled,
                 mounted, effectVars, historyPushes, steps, lastEvent>>

\* fetchShopProductsPage rejects
FetchFail(gen) ==
  /\ CanSettle(gen)
  /\ pending' = pending \ {gen}
  /\ IF gen \notin isCancelled
     THEN /\ error' = FetchError
          /\ isLoading' = IsLoadingOnSettle
     ELSE UNCHANGED <<error, isLoading>>
  /\ lastOp' = [op |-> "fetchFail", arg |-> gen]
  /\ UNCHANGED facetVars
  /\ UNCHANGED <<searchParams, appliedFilters, draftVars, products, pageState, requests,
                 isCancelled, mounted, effectVars, historyPushes, steps, lastEvent>>

\* the closure's flag is never set
CleanupLoadFilters_NoCancel == cancelled

\* the loadFilters effect's cleanup
CleanupLoadFilters == TRUE

CanSettleFilters == filtersPending /\ (mounted => Settled)

\* fetchShopFilters resolves with data, latency after the component was constructed
\* (the argument recorded is the number of tags on show until then)
FiltersSucceed(data, latency) ==
  /\ CanSettleFilters
  /\ filtersPending' = FALSE
  /\ now' = now + latency
  /\ IF ~cancelled
     THEN LET sortedTags == sortTagOptionsByCount(data.tags)
          IN  /\ availableTags' = sortedTags
              /\ availableAuthors' = data.authors
              /\ sessionStorage' = writeCachedTags(sessionStorage, sortedTags, now')
              /\ isLoadingFilters' = FALSE
     ELSE UNCHANGED <<availableTags, availableAuthors, sessionStorage, isLoadingFilters>>
  /\ lastOp' = [op |-> "filtersSucceed", arg |-> Len(availableTags)]
  /\ UNCHANGED <<searchParams, appliedFilters, draftVars, resultVars, fetchVars,
                 filterRequests, cancelled, mountEffectsDue, mounted, effectVars,
                 historyPushes, steps, lastEvent>>

\* the catch block empties the list
TagsAfterFiltersFail_Emptied == <<>>

\* the catch block of loadFilters sets nothing: "Use cached values if request fails"
TagsAfterFiltersFail == availableTags

\* fetchShopFilters rejects
FiltersFail(latency) ==
  /\ CanSettleFilters
  /\ filtersPending' = FALSE
  /\ now' = now + latency
  /\ availableTags' = TagsAfterFiltersFail
  /\ isLoadingFilters' = IF ~cancelled THEN FALSE ELSE isLoadingFilters
  /\ lastOp' = [op |-> "filtersFail", arg |-> 0]
  /\ UNCHANGED <<searchParams, appliedFilters, draftVars, resultVars, fetchVars,
                 availableAuthors, sessionStorage, filterRequests,
                 cancelled, mountEffectsDue, mounted, effectVars, historyPushes, steps,
                 lastEvent>>

\* The route changes away from the shop: every effect's cleanup runs.
Unmount ==
  /\ mounted
  /\ Settled
  /\ mounted' = FALSE
  /\ isCancelled' = CleanupLoadPage
  /\ cancelled' = CleanupLoadFilters
  /\ lastOp' = [op |-> "unmount", arg |-> 0]
  /\ UNCHANGED <<searchParams, appliedFilters, draftVars, resultVars, requests, pending,
                 effectVars, historyPushes, steps, lastEvent, availableTags,
                 availableAuthors, isLoadingFilters, filterRequests, filtersPending,
                 sessionStorage, now, mountEffectsDue>>

\* ------------------------------------------------------------ specification
Next ==
  \/ \E value \in SearchInputs : SetDraftSearch(value)
  \/ \E tag \in TagInputs : toggleTag(tag)
  \/ \E authorUserId \in AuthorInputs : toggleAuthor(authorUserId)
  \/ \E value \in MinPriceInputs : SetDraftMinPrice(value)
  \/ \E value \in MaxPriceInputs : SetDraftMaxPrice(value)
  \/ \E value \in SortInputs : SetDraftSortBy(value)
  \/ \E value \in PageSizeInputs : SetDraftPageSize(value)
  \/ applyFilters
  \/ clearFilters
  \/ \E page \in PageInputs : goToPage(page)
  \/ \E params \in ExternalParams : Navigate(params)
  \/ EffectPass
  \/ \E gen \in pending, totalPages \in {0, MaxTotalPages} : FetchSucceed(gen, totalPages)
  \/ \E gen \in pending : FetchFail(gen)
  \/ Unmount

\* The query machinery; the facet fetch issued on mount is outstanding throughout.
Spec == Init /\ [][Next]_vars

\* The facet machinery over every storage state: the facet fetch settles at any
\* point of the component's life, next to the product fetches and the user's
\* tag and reset events.
FacetNext ==
  \/ \E tag \in TagInputs : toggleTag(tag)
  \/ clearFilters
  \/ EffectPass
  \/ \E gen \in pending, totalPages \in {0, MaxTotalPages} : FetchSucceed(gen, totalPages)
  \/ \E gen \in pending : FetchFail(gen)
  \/ \E data \in FilterResponses, latency \in Latencies : FiltersSucceed(data, latency)
  \/ \E latency \in Latencies : FiltersFail(latency)
  \/ Unmount

FacetSpec == FacetInit /\ [][FacetNext]_vars

\* The whole component opened at /shop: every event and both fetches' outcomes.
RecoveryInit ==
  \E storage \in InitialStorage, time \in StartTimes :
    Constructed(EmptyParams, storage, time)

RecoveryNext ==
  \/ Next
  \/ \E data \in FilterResponses, latency \in Latencies : FiltersSucceed(data, latency)
  \/ \E latency \in Latencies : FiltersFail(latency)

RecoverySpec == RecoveryInit /\ [][RecoveryNext]_vars

\* ------------------------------------------------- the functions on their own
\* No Shop is mounted: the component's state variables hold fixed values
\* (NoShopState leaves the draft tag list open, NoShop has it empty).
NoShopState ==
  /\ draftSearch = <<>>
  /\ draftSelectedAuthorUserIds = <<>>
  /\ draftMinPrice = None
  /\ draftMaxPrice = None
  /\ draftSortBy = "date"
  /\ draftPageSize = 24
  /\ products = 0
  /\ pageState = DEFAULT_PAGE_STATE
  /\ isLoading = FALSE
  /\ error = NoError
  /\ requests = <<>>
  /\ pending = {}
  /\ isCancelled = {}
  /\ availableAuthors = <<>>
  /\ isLoadingFilters = FALSE
  /\ filterRequests = 0
  /\ filtersPending = FALSE
  /\ cancelled = FALSE
  /\ mounted = FALSE
  /\ mountEffectsDue = FALSE
  /\ searchParamsChanged = FALSE
  /\ appliedFiltersChanged = FALSE
  /\ historyPushes = 0
  /\ steps = 0
  /\ lastEvent = [op |-> "none", arg |-> 0]

NoShop == NoShopState /\ draftSelectedTags = <<>>

NoShopVars ==
  <<draftVars, resultVars, fetchVars, availableAuthors, isLoadingFilters, filterRequests,
    filtersPending, cancelled, mounted, mountEffectsDue, effectVars, historyPushes, steps,
    lastEvent>>

\* The facet cache: readCachedTags and writeCachedTags called at any time over
\* any storage state.  availableTags holds what readCachedTags returned (the
\* useState initialiser of line 195).
CacheTimes == 999999..1000001
CacheWrites == { <<OptionA, OptionB>>, <<>> }

CacheInit ==
  /\ NoShop
  /\ searchParams = EmptyParams
  /\ appliedFilters = ClearedFilters
  /\ sessionStorage \in SessionStorages
  /\ now \in CacheTimes
  /\ availableTags = <<>>
  /\ lastOp = [op |-> "storage", arg |-> 0]

CacheRead ==
  /\ availableTags' = readCachedTags(sessionStorage, now)
  /\ lastOp' = [op |-> "readCachedTags", arg |-> 0]
  /\ UNCHANGED <<searchParams, appliedFilters, sessionStorage, now, NoShopVars>>

CacheWrite(tags) ==
  /\ sessionStorage' = writeCachedTags(sessionStorage, tags, now)
  /\ lastOp' = [op |-> "writeCachedTags", arg |-> 0]
  /\ UNCHANGED <<searchParams, appliedFilters, availableTags, now, NoShopVars>>

\* time passes
CacheTick ==
  /\ now + 1 \in CacheTimes
  /\ now' = now + 1
  /\ lastOp' = [op |-> "tick", arg |-> 0]
  /\ UNCHANGED <<searchParams, appliedFilters, availableTags, sessionStorage, NoShopVars>>

CacheNext ==
  \/ CacheRead
  \/ \E tags \in CacheWrites : CacheWrite(tags)
  \/ CacheTick

CacheSpec == CacheInit /\ [][CacheNext]_vars

\* The query codec: an AppliedFilters value is encoded, the result decoded,
\* that encoded again; or a URL is decoded and the result encoded.
\* appliedFilters holds the query at hand, searchParams the URLSearchParams.
\* Tag and author ids contain no comma (the product editors split tag input
\* on commas and whitespace).
CodecQueries ==
  [search : { <<>>, <<"a">>, <<"a", " ", "b">> },
   selectedTags : { <<>>, <<<<"a">>>>, <<<<"a">>, <<"b">>>>, <<<<"a", "b">>, <<"b">>>> },
   selectedAuthorUserIds : { <<>>, <<<<"u">>>>, <<<<"A">>, <<"u">>>> },
   minPriceCents : { None, Some(0), Some(5) },
   maxPriceCents : { None, Some(2), Some(10) },
   sortBy : { "date", "name" },
   page : { 1, 2, 10 },
   pageSize : { 24, 48, 1 }]

\* persisted forms with missing, malformed, blank and unknown entries
MalformedParams ==
  { [EmptyParams EXCEPT !.page = Some(<<"0">>), !.pageSize = Some(<<"-", "3">>),
                        !.maxPriceCents = Some(<<"x">>)],
    [EmptyParams EXCEPT !.page = Some(<<"1", ".", "5">>), !.minPriceCents = Some(<<" ">>),
                        !.tags = Some(<<",", " ", ",">>), !.search = Some(<<" ", " ">>)],
    [EmptyParams EXCEPT !.sortBy = Some(""), !.authors = Some(<<"u", ",", ",", " ", "u">>),
                        !.pageSize = Some(<<"4", "8">>), !.minPriceCents = Some(<<"0">>)],
    [EmptyParams EXCEPT !.tags = Some(<<" ", "B", " ", ",", "b">>), !.sortBy = Some("name"),
                        !.page = Some(<<"2", "x">>), !.extra = TRUE] }

CodecInit ==
  /\ NoShop
  /\ sessionStorage = StorageAbsent
  /\ now \in StartTimes
  /\ availableTags = <<>>
  /\ \/ /\ appliedFilters \in CodecQueries
        /\ searchParams = EmptyParams
        /\ lastOp = [op |-> "query", arg |-> 0]
     \/ /\ appliedFilters = ClearedFilters
        /\ searchParams \in ExternalParams \cup MalformedParams
        /\ lastOp = [op |-> "url", arg |-> 0]

\* (the argument recorded is 1 when the query encoded is a decoder's result)
CodecEncode ==
  /\ lastOp.op \in {"query", "decode"}
  /\ searchParams' = buildSearchParamsFromAppliedFilters(appliedFilters)
  /\ lastOp' = [op |-> "encode", arg |-> IF lastOp.op = "decode" THEN 1 ELSE 0]
  /\ UNCHANGED <<appliedFilters, availableTags, sessionStorage, now, NoShopVars>>

\* (the argument recorded is 1 when the URLSearchParams decoded are the
\* encoder's result)
CodecDecode ==
  /\ lastOp.op \in {"url", "encode"}
  /\ appliedFilters' = parseAppliedFiltersFromSearchParams(searchParams)
  /\ lastOp' = [op |-> "decode", arg |-> IF lastOp.op = "encode" THEN 1 ELSE 0]
  /\ UNCHANGED <<searchParams, availableTags, sessionStorage, now, NoShopVars>>

CodecNext == CodecEncode \/ CodecDecode

CodecSpec == CodecInit /\ [][CodecNext]_vars

\* The page-button window: pageState is set to any page the server may
\* report (setPageState(response.page), line 283), pageIndexes is the memo
\* computed from it.
MaxPages == 12

PageInit ==
  /\ NoShop
  /\ searchParams = EmptyParams
  /\ appliedFilters = ClearedFilters
  /\ sessionStorage = StorageAbsent
  /\ now \in StartTimes
  /\ availableTags = <<>>
  /\ lastOp = [op |-> "render", arg |-> 0]

setPageState(index, totalPages) ==
  /\ pageState' = [index |-> index, totalPages |-> totalPages]
  /\ lastOp' = [op |-> "setPageState", arg |-> index]
  /\ UNCHANGED <<searchParams, appliedFilters, draftVars, products, isLoading, error,
                 fetchVars, facetVars, mounted, effectVars, historyPushes, steps, lastEvent>>

PageNext ==
  \E index \in 0..(MaxPages + 1), totalPages \in (0 - 1)..MaxPages :
    setPageState(index, totalPages)

PageSpec == PageInit /\ [][PageNext]_vars

\* The tag canonicalisation: a list of selected tags is canonicalised as the
\* commit does (applyFilters, line 373; hasPendingFilterChanges, line 327,
\* calls the same function), or written as the URL's tags value and decoded.
\* draftSelectedTags holds the list, appliedFilters.selectedTags the result.
TagElements == { <<"a">>, <<"A">>, <<"b">> }

MaxTags == 3

TagSequences ==
  UNION { [1..n -> TagElements] : n \in 0..MaxTags }

CanonInit ==
  /\ NoShopState
  /\ draftSelectedTags \in TagSequences
  /\ appliedFilters = ClearedFilters
  /\ searchParams = EmptyParams
  /\ sessionStorage = StorageAbsent
  /\ now \in StartTimes
  /\ availableTags = <<>>
  /\ lastOp = [op |-> "tags", arg |-> 0]

CanonCommit ==
  /\ lastOp.op = "tags"
  /\ appliedFilters' =
       [appliedFilters EXCEPT !.selectedTags = normalizeTagSelection(draftSelectedTags)]
  /\ lastOp' = [op |-> "commitTags", arg |-> 0]
  /\ UNCHANGED <<searchParams, availableTags, sessionStorage, now, NoShopVars>>

CanonDecode ==
  /\ lastOp.op = "tags"
  /\ searchParams' = [EmptyParams EXCEPT !.tags = Some(Join(draftSelectedTags))]
  /\ appliedFilters' = parseAppliedFiltersFromSearchParams(searchParams')
  /\ lastOp' = [op |-> "decodeTags", arg |-> 0]
  /\ UNCHANGED <<availableTags, sessionStorage, now, NoShopVars>>

CanonNext == CanonCommit \/ CanonDecode

CanonSpec == CanonInit /\ [][CanonNext]_vars

\* ================================================================== claims
IsFetchOutcome(op) == op.op \in {"fetchSucceed", "fetchFail"}

\* C1: the outcome (success or failure) of a result fetch that was superseded
\* by a later one changes none of products, pageState, error and isLoading,
\* and the products shown only ever become the response to the latest fetch
\* issued, never an earlier one's.
C1_StaleResponsesDiscarded ==
  [][ /\ (IsFetchOutcome(lastOp') /\ lastOp'.arg < Len(requests)) => UNCHANGED resultVars
      /\ products' # products => products' = Len(requests) ]_vars

\* B's response is shown, and A's success arrived after it and was dropped
C1_Witness ==
  /\ mounted
  /\ lastOp.op = "fetchSucceed"
  /\ lastOp.arg < Len(requests)
  /\ products = Len(requests)
  /\ pending = {}

Decoded == parseAppliedFiltersFromSearchParams(searchParams)
Encoded == buildSearchParamsFromAppliedFilters(appliedFilters)
LatestRequest == requests[Len(requests)]

\* C2: the effect pass that observes an external URL change whose decoded
\* query differs from the applied one sets appliedFilters and every draft
\* field to the decoded query (the draft is no longer dirty), and the pass
\* that renders a changed appliedFilters issues a fetch for exactly it.
C2_ExternalChangeReplacesAppliedAndDraft ==
  [][ /\ (lastOp.op = "navigate" /\ lastOp'.op = "effects"
          /\ ~areFiltersEqual(appliedFilters, Decoded))
        => /\ appliedFilters' = Decoded
           /\ draftSearch' = Decoded.search
           /\ draftSelectedTags' = Decoded.selectedTags
           /\ draftSelectedAuthorUserIds' = Decoded.selectedAuthorUserIds
           /\ normalizePriceToCents(draftMinPrice') = Decoded.minPriceCents
           /\ normalizePriceToCents(draftMaxPrice') = Decoded.maxPriceCents
           /\ draftSortBy' = Decoded.sortBy
           /\ draftPageSize' = Decoded.pageSize
           /\ ~hasPendingFilterChanges'
           /\ appliedFiltersChanged'
      /\ (lastOp'.op = "effects" /\ appliedFiltersChanged)
        => /\ requests' = Append(requests, appliedFilters)
           /\ Len(requests') \in pending'
           /\ Len(requests') \notin isCancelled' ]_vars

\* after an edit and a navigation, a second fetch went out for a query other
\* than the one the component was mounted with
C2_Witness ==
  /\ lastEvent.op = "navigate"
  /\ lastOp.op = "effects"
  /\ steps = 2
  /\ Len(requests) = 2
  /\ requests[2] # requests[1]
  /\ 2 \in pending

\* C3: after an external URL change the state-to-URL effect never writes the
\* encoding of the applied query that the change supersedes over the new URL.
C3_NoStaleWriteBack ==
  [][ (lastOp.op = "navigate" /\ lastOp'.op = "effects" /\ appliedFilters' # appliedFilters)
        => searchParams' # Encoded ]_vars

\* C4: an effect pass that observes a URL change whose decoded query equals
\* the applied query leaves appliedFilters and every draft field as they
\* were and issues no fetch.
C4_EqualDecodeIsNoOp ==
  [][ (lastOp.op # "mount" /\ lastOp'.op = "effects" /\ searchParamsChanged
       /\ ~appliedFiltersChanged /\ areFiltersEqual(appliedFilters, Decoded))
        => /\ appliedFilters' = appliedFilters
           /\ UNCHANGED draftVars
           /\ requests' = requests ]_vars

\* C5: an accepted goToPage(p) sets only appliedFilters.page, a fetch for the
\* new page follows, and no draft field changes, neither in the handler nor in
\* the effect passes that settle its write-back.
C5_GoToPageChangesOnlyPage ==
  [][ /\ (lastOp'.op = "goToPage" /\ goToPageAccepts(lastOp'.arg))
        => /\ appliedFilters' = [appliedFilters EXCEPT !.page = lastOp'.arg]
           /\ appliedFiltersChanged'
           /\ UNCHANGED draftVars
      /\ (lastEvent.op = "goToPage" /\ lastOp'.op = "effects")
        => /\ appliedFilters' = appliedFilters
           /\ UNCHANGED draftVars ]_vars

\* C6: in every settled state the URL decodes to the applied query, and
\* whenever the state-to-URL effect writes, what it writes is the encoding of
\* the applied query that pass leaves in force.
C6_WriteBackConsistency ==
  /\ [](mounted /\ Settled => areFiltersEqual(Decoded, appliedFilters))
  /\ [][ (lastOp'.op = "effects" /\ searchParams' # searchParams)
           => searchParams' = buildSearchParamsFromAppliedFilters(appliedFilters') ]_vars

\* C7: the component changes the URL only in the state-to-URL effect, only
\* when the encoding of the rendered appliedFilters differs from the rendered
\* URL, and then by exactly one history entry; a pass that renders a URL
\* already equal to that encoding (a repeated commit) writes nothing.
C7_NoRedundantWrites ==
  [][ /\ (historyPushes' # historyPushes \/ (searchParams' # searchParams /\ lastOp'.op # "navigate"))
        => /\ lastOp'.op = "effects"
           /\ Encoded # searchParams
           /\ searchParams' = Encoded
           /\ historyPushes' = historyPushes + 1
      /\ (lastOp'.op = "effects" /\ Encoded = searchParams)
        => UNCHANGED <<searchParams, historyPushes>> ]_vars

\* a changing commit and then an identical one: three fetches, one history entry
C7_Witness ==
  /\ lastEvent.op = "applyFilters"
  /\ lastOp.op = "effects"
  /\ Settled
  /\ Len(requests) = 3
  /\ requests[3] = requests[2]
  /\ requests[2] # requests[1]
  /\ historyPushes = 1

\* C8: applyFilters with an invalid draft price range changes neither the
\* applied query nor the URL nor the fetches issued, leaves no effect due, and
\* the draft is still invalid afterwards.
C8_InvalidCommitIsNoOp ==
  [][ (lastOp'.op = "applyFilters" /\ hasInvalidPriceRange)
        => /\ UNCHANGED <<appliedFilters, searchParams, historyPushes, requests, pending>>
           /\ Settled'
           /\ hasInvalidPriceRange' ]_vars

\* the draft range was made invalid by the user (the applied query has no
\* maximum) and the commit was attempted
C8_Witness ==
  /\ lastOp.op = "applyFilters"
  /\ hasInvalidPriceRange
  /\ IsNone(appliedFilters.maxPriceCents)

IsSortedNoDup(seq) == \A i \in 1..(Len(seq) - 1) : LocaleLess(seq[i], seq[i + 1])
IsTrimmed(s) == Len(s) = 0 \/ (s[1] # " " /\ s[Len(s)] # " ")

\* C9: a valid applyFilters sets appliedFilters to the canonical draft: the
\* search trimmed, the tags and the authors the draft's as duplicate-free
\* sorted lists, the prices in cents, the draft's sort key and page size, and
\* page 1 whatever it was.
C9_CommitAppliesCanonicalDraft ==
  [][ (lastOp'.op = "applyFilters" /\ ~hasInvalidPriceRange)
        => /\ appliedFilters'.search = Trim(draftSearch)
           /\ IsTrimmed(appliedFilters'.search)
           /\ Range(appliedFilters'.selectedTags) = Range(draftSelectedTags)
           /\ IsSortedNoDup(appliedFilters'.selectedTags)
           /\ Range(appliedFilters'.selectedAuthorUserIds) = Range(draftSelectedAuthorUserIds)
           /\ IsSortedNoDup(appliedFilters'.selectedAuthorUserIds)
           /\ appliedFilters'.minPriceCents = normalizePriceToCents(draftMinPrice)
           /\ appliedFilters'.maxPriceCents = normalizePriceToCents(draftMaxPrice)
           /\ appliedFilters'.sortBy = draftSortBy
           /\ appliedFilters'.pageSize = draftPageSize
           /\ appliedFilters'.page = 1 ]_vars

\* the commit took an unsorted tag draft while page 2 was applied
C9_Witness ==
  /\ lastOp.op = "applyFilters"
  /\ ~hasInvalidPriceRange
  /\ Decoded.page = 2
  /\ appliedFilters.page = 1
  /\ Len(draftSelectedTags) = 2
  /\ ~IsSortedNoDup(draftSelectedTags)
  /\ IsSortedNoDup(appliedFilters.selectedTags)

\* C10: the effect pass after a commit that left the applied query equal to
\* the one the latest fetch was issued for issues no new fetch.
C10_EqualCommitIssuesNoFetch ==
  [][ (lastOp.op = "applyFilters" /\ lastOp'.op = "effects" /\ Len(requests) > 0
       /\ areFiltersEqual(appliedFilters, LatestRequest))
        => requests' = requests ]_vars

\* everything but the draft, the event counter and the history variables
NonDraftVars ==
  <<searchParams, appliedFilters, resultVars, fetchVars, facetVars, mounted, effectVars,
    historyPushes>>

\* C11: goToPage(p) with p < 1 changes nothing; with the last known
\* totalPages > 0, goToPage(p) with p > totalPages changes nothing; with
\* totalPages = 0, goToPage(p) for any p >= 1 sets appliedFilters.page to p.
C11_GoToPageBounds ==
  [][ lastOp'.op = "goToPage" =>
        /\ lastOp'.arg < 1 => UNCHANGED <<NonDraftVars, draftVars>>
        /\ (pageState.totalPages > 0 /\ lastOp'.arg > pageState.totalPages)
             => UNCHANGED <<NonDraftVars, draftVars>>
        /\ (pageState.totalPages = 0 /\ lastOp'.arg >= 1)
             => appliedFilters'.page = lastOp'.arg ]_vars

\* goToPage(totalPages + 1) was called with a known page count and left the
\* applied page where it was
C11_Witness ==
  /\ lastOp.op = "goToPage"
  /\ pageState.totalPages > 0
  /\ lastOp.arg = pageState.totalPages + 1
  /\ appliedFilters.page <= pageState.totalPages
  /\ Settled

DefaultQuery ==
  [search |-> <<>>, selectedTags |-> <<>>, selectedAuthorUserIds |-> <<>>,
   minPriceCents |-> None, maxPriceCents |-> None, sortBy |-> DefaultSortKey,
   page |-> DefaultPage, pageSize |-> DefaultPageSize]

DraftIsDefault ==
  /\ draftSearch = <<>>
  /\ draftSelectedTags = <<>>
  /\ draftSelectedAuthorUserIds = <<>>
  /\ draftMinPrice = None
  /\ draftMaxPrice = None
  /\ draftSortBy = DefaultSortKey
  /\ draftPageSize = DefaultPageSize

\* C12: clearFilters, whether or not the draft is valid, sets every draft
\* field and appliedFilters to the default query, which is what a commit of
\* that default draft would apply, and a fetch becomes due; from then until
\* the next event the draft is neither invalid nor dirty.
C12_ResetAppliesDefault ==
  [][ /\ lastOp'.op = "clearFilters"
        => /\ DraftIsDefault'
           /\ appliedFilters' = DefaultQuery
           /\ appliedFilters' = AppliedFromDraft'
           /\ appliedFiltersChanged'
      /\ lastEvent'.op = "clearFilters"
        => /\ ~hasInvalidPriceRange'
           /\ ~hasPendingFilterChanges'
           /\ appliedFilters' = DefaultQuery ]_vars

\* the reset was made over an invalid draft price range and a non-default URL,
\* and has settled
C12_Witness ==
  /\ lastEvent.op = "clearFilters"
  /\ lastEvent.arg = 1
  /\ lastOp.op = "effects"
  /\ Settled
  /\ historyPushes = 1
  /\ searchParams = EmptyParams
  /\ DraftIsDefault

DraftEditOps ==
  {"setDraftSearch", "toggleTag", "toggleAuthor", "setDraftMinPrice", "setDraftMaxPrice",
   "setDraftSortBy", "setDraftPageSize"}

\* C13: a draft edit changes nothing but draft fields (a toggle does change
\* its selection): appliedFilters, the URL, products, pageState, error and
\* isLoading keep their values, no product fetch and no facet fetch is issued
\* by it, and it leaves no effect due.
C13_DraftEditChangesOnlyDraft ==
  [][ lastOp'.op \in DraftEditOps
        => /\ UNCHANGED NonDraftVars
           /\ Settled'
           /\ lastOp'.op = "toggleTag"
                => /\ draftSelectedTags' # draftSelectedTags
                   /\ UNCHANGED <<draftSearch, draftSelectedAuthorUserIds, draftMinPrice,
                                  draftMaxPrice, draftSortBy, draftPageSize>>
           /\ lastOp'.op = "toggleAuthor"
                => /\ draftSelectedAuthorUserIds' # draftSelectedAuthorUserIds
                   /\ UNCHANGED <<draftSearch, draftSelectedTags, draftMinPrice,
                                  draftMaxPrice, draftSortBy, draftPageSize>> ]_vars

\* a tag was toggled while the first page of results was on show: the draft is
\* dirty and still only one fetch has been made
C13_Witness ==
  /\ lastOp.op = "toggleTag"
  /\ hasPendingFilterChanges
  /\ products = 1
  /\ ~isLoading
  /\ Len(requests) = 1
  /\ filterRequests = 1

\* C14: when the fetch issued last settles on a mounted component, a success
\* replaces products and pageState by the response and leaves no error, and a
\* failure leaves products and pageState exactly as they were and sets an
\* error message; either way isLoading ends.
C14_FetchOutcomeApplied ==
  [][ (mounted /\ IsFetchOutcome(lastOp') /\ lastOp'.arg = Len(requests))
        => /\ lastOp'.op = "fetchSucceed"
                => /\ products' = lastOp'.arg
                   /\ pageState'.index = requests[lastOp'.arg].page
                   /\ error' = NoError
           /\ lastOp'.op = "fetchFail"
                => /\ UNCHANGED <<products, pageState>>
                   /\ error' # NoError
           /\ ~isLoading' ]_vars

\* the second fetch failed while the first one's page stays on show
C14_Witness ==
  /\ mounted
  /\ lastOp.op = "fetchFail"
  /\ lastOp.arg = Len(requests)
  /\ products = 1
  /\ Len(requests) = 2
  /\ error = FetchError
  /\ ~isLoading

\* the number of times x occurs in seq
Occurrences(seq, x) == Cardinality({i \in 1..Len(seq) : seq[i] = x})
\* a and b hold the same options, each as often
SameOptions(a, b) ==
  /\ Len(a) = Len(b)
  /\ \A x \in Range(a) \cup Range(b) : Occurrences(a, x) = Occurrences(b, x)
\* descending count, and ascending value among equal counts
IsByCountThenValue(seq) ==
  \A i \in 1..(Len(seq) - 1) :
    \/ seq[i].count > seq[i + 1].count
    \/ seq[i].count = seq[i + 1].count /\ ~LocaleLess(seq[i + 1].value, seq[i].value)
\* the storage holds an entry with a tag list and an expiry not earlier than time
HasLiveEntry(storage, time) ==
  /\ storage.kind = "entry"
  /\ ~IsNone(storage.tags)
  /\ ~IsNone(storage.expiresAt)
  /\ Val(storage.expiresAt) >= time

\* C15: when the facet fetch of a component constructed over a non-empty,
\* non-expired cache entry fails, the tag list on show is that entry's list
\* (in display order), non-empty and as it was before the failure; the
\* failure sets no error, changes nothing of the result view and leaves the
\* cache entry as it is.  (now is the construction time until the facet fetch
\* settles.)
C15_FacetFailureKeepsCachedTags ==
  [][ lastOp'.op = "filtersFail"
        => /\ UNCHANGED <<availableTags, availableAuthors, sessionStorage, resultVars>>
           /\ (HasLiveEntry(sessionStorage, now) /\ Len(Val(sessionStorage.tags)) > 0)
                => /\ SameOptions(availableTags', Val(sessionStorage.tags))
                   /\ IsByCountThenValue(availableTags')
                   /\ Len(availableTags') > 0 ]_vars

\* the fetch failed on a mounted component that shows the three cached tags
C15_Witness ==
  /\ mounted
  /\ lastOp.op = "filtersFail"
  /\ ~isLoadingFilters
  /\ sessionStorage.kind = "entry"
  /\ availableTags = <<OptionB, OptionC, OptionA>>
  /\ error = NoError

\* C16: when the facet fetch succeeds on a mounted component, the tag list on
\* show becomes the fetched list (in display order) and the author list the
\* fetched authors; a storage that takes writes then holds exactly that tag
\* list, with none of the options the old entry had beyond it, and the expiry
\* is the time of the write plus 10 minutes.
C16_FacetSuccessReplacesListAndCache ==
  [][ (lastOp'.op = "filtersSucceed" /\ ~cancelled)
        => \E data \in FilterResponses :
             /\ SameOptions(availableTags', data.tags)
             /\ IsByCountThenValue(availableTags')
             /\ availableAuthors' = data.authors
             /\ ~isLoadingFilters'
             /\ sessionStorage.kind # "unavailable"
                  => /\ sessionStorage'.kind = "entry"
                     /\ sessionStorage'.tags = Some(availableTags')
                     /\ Range(Val(sessionStorage'.tags)) \subseteq Range(data.tags)
                     /\ sessionStorage'.expiresAt = Some(now' + 600000) ]_vars

\* the fetched list replaced three cached tags, one of them not in the fetched
\* list, on show and in the storage
C16_Witness ==
  /\ mounted
  /\ lastOp.op = "filtersSucceed"
  /\ lastOp.arg = 3
  /\ availableTags = <<OptionB, OptionA>>
  /\ sessionStorage = StorageEntry(<<OptionB, OptionA>>, now + 600000)

\* C17 as claimed: the cached options are returned exactly when the entry's
\* expiry is strictly later than the current time.
C17_ReadHitsOnlyBeforeExpiry ==
  [][ lastOp'.op = "readCachedTags"
        => IF HasLiveEntry(sessionStorage, now) /\ Val(sessionStorage.expiresAt) > now
           THEN /\ SameOptions(availableTags', Val(sessionStorage.tags))
                /\ IsByCountThenValue(availableTags')
           ELSE availableTags' = <<>> ]_vars

\* C17 amended: readCachedTags returns the cached options, ordered by
\* descending count and then ascending value, exactly when the storage holds
\* an entry with a tag list whose expiry is not earlier than the current time
\* (an entry is still served at the instant of its expiry); with no entry, an
\* expired or incomplete entry, a corrupt payload or a failing storage it
\* returns the empty list.
C17_ReadHitsUntilExpiry ==
  [][ lastOp'.op = "readCachedTags"
        => IF HasLiveEntry(sessionStorage, now)
           THEN /\ SameOptions(availableTags', Val(sessionStorage.tags))
                /\ IsByCountThenValue(availableTags')
           ELSE availableTags' = <<>> ]_vars

\* an entry was read at the instant of its expiry and its two tags returned
C17_Witness ==
  /\ lastOp.op = "readCachedTags"
  /\ sessionStorage.kind = "entry"
  /\ sessionStorage.expiresAt = Some(now)
  /\ availableTags = <<OptionC, OptionA>>

IsSettleOp(op) == op.op \in {"fetchSucceed", "fetchFail", "filtersSucceed", "filtersFail"}

\* C18: once the component is unmounted, the success or failure of a product
\* fetch or of the facet fetch changes none of products, pageState, error,
\* isLoading, isLoadingFilters, the facet lists, the applied and draft query,
\* and writes nothing to the facet cache.
C18_NoStateChangeAfterTeardown ==
  [][ (~mounted /\ IsSettleOp(lastOp'))
        => UNCHANGED <<resultVars, availableTags, availableAuthors, isLoadingFilters,
                       sessionStorage, appliedFilters, draftVars, searchParams>> ]_vars

\* both fetches settled after the unmount: the loading flags are as the
\* unmount left them and the storage is still empty
C18_Witness ==
  /\ ~mounted
  /\ lastOp.op = "filtersSucceed"
  /\ pending = {}
  /\ Len(requests) > 0
  /\ isLoading
  /\ isLoadingFilters
  /\ availableTags = <<>>
  /\ sessionStorage = StorageAbsent

IsCanonicalId(id) == Len(id) > 0 /\ IsTrimmed(id)
IsCanonicalQuery(q) ==
  /\ IsTrimmed(q.search)
  /\ IsSortedNoDup(q.selectedTags)
  /\ \A i \in 1..Len(q.selectedTags) :
       IsCanonicalId(q.selectedTags[i]) /\ ToLowerCase(q.selectedTags[i]) = q.selectedTags[i]
  /\ IsSortedNoDup(q.selectedAuthorUserIds)
  /\ \A i \in 1..Len(q.selectedAuthorUserIds) : IsCanonicalId(q.selectedAuthorUserIds[i])
  /\ IsNone(q.minPriceCents) \/ Val(q.minPriceCents) >= 0
  /\ IsNone(q.maxPriceCents) \/ Val(q.maxPriceCents) >= 0
  /\ q.sortBy \in VALID_SORT_KEYS
  /\ q.page >= 1
  /\ q.pageSize >= 1

\* C19: decoding the encoding of a canonical query gives the query back:
\* field by field, and so under areFiltersEqual.
C19_DecodeInvertsEncode ==
  [][ (lastOp.op = "encode" /\ lastOp'.op = "decode" /\ IsCanonicalQuery(appliedFilters))
        => /\ areFiltersEqual(appliedFilters', appliedFilters)
           /\ appliedFilters' = appliedFilters ]_vars

\* a query with nothing at its default went through encode and decode
C19_Witness ==
  /\ lastOp = [op |-> "decode", arg |-> 1]
  /\ appliedFilters.search = <<"a", " ", "b">>
  /\ Len(appliedFilters.selectedTags) = 2
  /\ Len(appliedFilters.selectedAuthorUserIds) = 2
  /\ appliedFilters.minPriceCents = Some(0)
  /\ appliedFilters.maxPriceCents = Some(10)
  /\ appliedFilters.sortBy = "name"
  /\ appliedFilters.page = 10
  /\ appliedFilters.pageSize = 1
  /\ searchParams.minPriceCents = Some(<<"0">>)

\* C20: encoding never emits a key whose value is the default (empty search,
\* no tags, no authors, no price bound, sort "date", page 1, page size 24) nor
\* any other key, and encoding the decoding of an encoder's result gives that
\* result again.
C20_EncodeMinimalFixedPoint ==
  [][ lastOp'.op = "encode"
        => /\ Len(appliedFilters.search) = 0 <=> IsNone(searchParams'.search)
           /\ Len(appliedFilters.selectedTags) = 0 <=> IsNone(searchParams'.tags)
           /\ Len(appliedFilters.selectedAuthorUserIds) = 0 <=> IsNone(searchParams'.authors)
           /\ IsNone(appliedFilters.minPriceCents) <=> IsNone(searchParams'.minPriceCents)
           /\ IsNone(appliedFilters.maxPriceCents) <=> IsNone(searchParams'.maxPriceCents)
           /\ appliedFilters.sortBy = "date" <=> IsNone(searchParams'.sortBy)
           /\ appliedFilters.page = 1 <=> IsNone(searchParams'.page)
           /\ appliedFilters.pageSize = 24 <=> IsNone(searchParams'.pageSize)
           /\ ~searchParams'.extra
           /\ (lastOp = [op |-> "decode", arg |-> 1]) => searchParams' = searchParams ]_vars

\* a query with only the tags and the page off their defaults was encoded,
\* decoded and encoded again
C20_Witness ==
  /\ lastOp = [op |-> "encode", arg |-> 1]
  /\ searchParams =
       [EmptyParams EXCEPT !.tags = Some(<<"a", "b", ",", "b">>), !.page = Some(<<"2">>)]

\* The canonical form of a tag list as the specification describes it:
\* lower-cased, trimmed, empties dropped, deduplicated, sorted.
CanonicalTagSet(tags) ==
  SortByLocale({ ToLowerCase(Trim(tags[i])) : i \in 1..Len(tags) } \ { <<>> })

\* C21: two tag lists that name the same set case-insensitively (permutations,
\* duplicates, case variants) get the same canonical list from the commit,
\* from isDirty and from the decoder: each of them yields the lower-cased,
\* trimmed, deduplicated, sorted list of the tags named.
C21_TagCanonicalizationCaseIndependent ==
  [][lastOp'.op \in {"commitTags", "decodeTags"}
       => appliedFilters'.selectedTags = CanonicalTagSet(draftSelectedTags)]_vars

\* What a persisted entry denotes, read off its text: a decimal numeral
\* (surrounding blanks allowed), a list of comma-separated ids.
IsNumeral(raw) ==
  /\ ~IsNone(raw)
  /\ Len(Trim(Val(raw))) > 0
  /\ \A i \in 1..Len(Trim(Val(raw))) : IsDigit(Trim(Val(raw))[i])
NumeralValue(raw) == DigitsValue(Trim(Val(raw)), 0)
ListedIds(raw) ==
  IF IsNone(raw) THEN {}
  ELSE { Trim(Split(Val(raw))[i]) : i \in 1..Len(Split(Val(raw))) } \ { <<>> }

\* C22: the decoder returns a query for every persisted form; a field whose
\* entry is absent or malformed is at its default (page 1, page size 24, sort
\* date, no price bounds, empty search, no tags, no authors), a well-formed
\* entry is taken over, the tags lower-cased, deduplicated and sorted; tags
\* "b,A,b" with page "2" decode to tags [a, b], page 2 and defaults elsewhere.
C22_DecodeTotalAndLenient ==
  [][ (lastOp.op = "url" /\ lastOp'.op = "decode")
        => LET p == searchParams
               q == appliedFilters'
           IN  /\ DOMAIN q = DOMAIN DefaultQuery
               /\ q.page = IF IsNumeral(p.page) /\ NumeralValue(p.page) >= 1
                           THEN NumeralValue(p.page) ELSE DefaultPage
               /\ q.pageSize = IF IsNumeral(p.pageSize) /\ NumeralValue(p.pageSize) >= 1
                               THEN NumeralValue(p.pageSize) ELSE DefaultPageSize
               /\ q.sortBy = IF ~IsNone(p.sortBy) /\ Val(p.sortBy) \in VALID_SORT_KEYS
                             THEN Val(p.sortBy) ELSE DefaultSortKey
               /\ q.minPriceCents = IF IsNumeral(p.minPriceCents)
                                    THEN Some(NumeralValue(p.minPriceCents)) ELSE None
               /\ q.maxPriceCents = IF IsNumeral(p.maxPriceCents)
                                    THEN Some(NumeralValue(p.maxPriceCents)) ELSE None
               /\ q.search = IF IsNone(p.search) THEN <<>> ELSE Trim(Val(p.search))
               /\ q.selectedTags =
                    IF IsNone(p.tags) THEN <<>> ELSE CanonicalTagSet(Split(Val(p.tags)))
               /\ q.selectedAuthorUserIds = SortByLocale(ListedIds(p.authors))
               /\ p = [EmptyParams EXCEPT !.tags = Some(<<"b", ",", "A", ",", "b">>),
                                          !.page = Some(<<"2">>)]
                    => q = [DefaultQuery EXCEPT !.selectedTags = << <<"a">>, <<"b">> >>,
                                                !.page = 2] ]_vars

\* a form with a malformed page, a valid sort key, blank-padded mixed-case
\* duplicate tags and an unknown key was decoded
C22_Witness ==
  /\ lastOp = [op |-> "decode", arg |-> 0]
  /\ searchParams.page = Some(<<"2", "x">>)
  /\ searchParams.extra
  /\ appliedFilters = [DefaultQuery EXCEPT !.selectedTags = << <<"b">> >>, !.sortBy = "name"]

\* C23: in every reachable state the applied query's price bounds are ordered:
\* when both minPriceCents and maxPriceCents are present, minPriceCents is at
\* most maxPriceCents, whichever path produced the applied query.
C23_AppliedPriceRangeOrdered ==
  (~IsNone(appliedFilters.minPriceCents) /\ ~IsNone(appliedFilters.maxPriceCents))
    => Val(appliedFilters.minPriceCents) <= Val(appliedFilters.maxPriceCents)

\* C24: in every reachable state the applied query's page size is one of the
\* allowed sizes 24, 48 and 72, also when the query was decoded from a URL.
C24_AppliedPageSizeAllowed ==
  appliedFilters.pageSize \in AllowedPageSizes

\* The draft in canonical form equals the applied query on every field but
\* the page: search trimmed, tags and authors as sets in sorted order, prices
\* in cents.
CanonicalDraftEqualsApplied ==
  /\ Trim(draftSearch) = appliedFilters.search
  /\ CanonicalTagSet(draftSelectedTags) = appliedFilters.selectedTags
  /\ SortByLocale(Range(draftSelectedAuthorUserIds)) = appliedFilters.selectedAuthorUserIds
  /\ normalizePriceToCents(draftMinPrice) = appliedFilters.minPriceCents
  /\ normalizePriceToCents(draftMaxPrice) = appliedFilters.maxPriceCents
  /\ draftSortBy = appliedFilters.sortBy
  /\ draftPageSize = appliedFilters.pageSize

FailedAndReady ==
  /\ CanHandleEvent
  /\ error = FetchError \/ lastOp.op \in {"fetchFail", "filtersFail"}

\* C26: after a failed result fetch or facet fetch the component still takes
\* commit, reset, page navigation and external change; each of them that
\* changes the applied query makes a new result fetch due, the effect pass
\* issues it (loading, error cleared), and when the most recently issued
\* fetch completes, in success or failure, the loading flag becomes false.
C26_RecoversAfterFailure ==
  [][ /\ FailedAndReady
         => /\ ENABLED applyFilters
            /\ ENABLED clearFilters
            /\ \A page \in PageInputs : ENABLED goToPage(page)
            /\ \A params \in ExternalParams \ {searchParams} : ENABLED Navigate(params)
      /\ (lastOp'.op = "applyFilters" /\ ~hasInvalidPriceRange) => appliedFiltersChanged'
      /\ lastOp'.op = "clearFilters" => appliedFiltersChanged'
      /\ (lastOp'.op = "goToPage" /\ goToPageAccepts(lastOp'.arg)) => appliedFiltersChanged'
      /\ lastOp'.op = "navigate" => searchParamsChanged'
      /\ (lastOp.op = "navigate" /\ lastOp'.op = "effects"
            /\ ~areFiltersEqual(appliedFilters, Decoded))
           => appliedFiltersChanged'
      /\ (lastOp'.op = "effects" /\ appliedFiltersChanged)
           => /\ requests' = Append(requests, appliedFilters)
              /\ Len(requests') \in pending'
              /\ isLoading'
              /\ error' = NoError
      /\ (IsFetchOutcome(lastOp') /\ mounted /\ lastOp'.arg = Len(requests))
           => ~isLoading' ]_vars

\* the first result fetch and the facet fetch failed, then a reset issued the
\* second result fetch
C26_Witness ==
  /\ lastOp.op = "effects"
  /\ lastEvent.op = "clearFilters"
  /\ Len(requests) = 2
  /\ pending = {2}
  /\ products = 0
  /\ isLoading
  /\ error = NoError
  /\ filterRequests = 1
  /\ ~filtersPending
  /\ sessionStorage = StorageAbsent

\* C27: when totalPages > 0 and 1 <= index <= totalPages, pageIndexes is a
\* run of exactly min(8, totalPages) consecutive ascending page numbers, all
\* within 1..totalPages, one of them the current index; when totalPages <= 0
\* it is empty.
C27_PageWindow ==
  LET total == pageState.totalPages
      index == pageState.index
      window == pageIndexes
  IN  /\ total <= 0 => window = <<>>
      /\ (total > 0 /\ 1 <= index /\ index <= total)
           => /\ Len(window) = IF total < 8 THEN total ELSE 8
              /\ \A k \in 1..(Len(window) - 1) : window[k + 1] = window[k] + 1
              /\ \A k \in 1..Len(window) : 1 <= window[k] /\ window[k] <= total
              /\ \E k \in 1..Len(window) : window[k] = index

\* the last of 12 pages is shown: the window was cut at 12 and moved back
C27_Witness ==
  /\ lastOp.op = "setPageState"
  /\ pageState = [index |-> 12, totalPages |-> 12]
  /\ pageIndexes = <<5, 6, 7, 8, 9, 10, 11, 12>>

\* C28: whenever the mounted component is idle (its effects have run), not
\* loading and without error, the page and items on show are the response to
\* the result fetch issued for the current applied query, which is the latest
\* fetch issued; no such state shows another query's results.
C28_IdleShowsAppliedQuery ==
  (mounted /\ Settled /\ ~isLoading /\ error = NoError)
    => /\ products > 0
       /\ products = Len(requests)
       /\ requests[products] = appliedFilters
       /\ pageState.index = appliedFilters.page

\* the second fetch, issued for a committed draft, has succeeded after the
\* first one was superseded while pending
C28_Witness ==
  /\ mounted /\ Settled /\ ~isLoading /\ error = NoError
  /\ lastOp = [op |-> "fetchSucceed", arg |-> 2]
  /\ lastEvent.op = "applyFilters"
  /\ 1 \in pending
  /\ products = 2
  /\ requests[1] # requests[2]

\* C29: while the component is mounted the loading flag is true exactly when
\* the most recently issued result fetch has not completed; a superseded
\* fetch's completion does not change it, and the effect pass that issues a
\* fetch sets it and clears the error.
C29_LoadingIffLatestFetchPending ==
  /\ []((mounted /\ Len(requests) > 0) => (isLoading <=> Len(requests) \in pending))
  /\ [][ /\ (mounted /\ IsFetchOutcome(lastOp') /\ lastOp'.arg # Len(requests))
              => isLoading' = isLoading
         /\ (lastOp'.op = "effects" /\ Len(requests') > Len(requests))
              => isLoading' /\ error' = NoError ]_vars

\* the first fetch completed after the fetch of a reset had superseded it,
\* which is still pending: the flag is still set
C29_Witness ==
  /\ mounted
  /\ lastOp.op \in {"fetchSucceed", "fetchFail"}
  /\ lastOp.arg = 1
  /\ Len(requests) = 2
  /\ pending = {2}
  /\ isLoading
  /\ error = NoError

\* C30: in every reachable state the applied query is in canonical form: the
\* search text has no leading or trailing blank, selectedTags and
\* selectedAuthorUserIds are sorted and free of duplicates, each price bound
\* is null or a non-negative integer, sortBy is one of the sort keys and
\* page is at least 1.
C30_AppliedIsCanonical ==
  /\ IsTrimmed(appliedFilters.search)
  /\ IsSortedNoDup(appliedFilters.selectedTags)
  /\ IsSortedNoDup(appliedFilters.selectedAuthorUserIds)
  /\ IsNone(appliedFilters.minPriceCents) \/ Val(appliedFilters.minPriceCents) \in Nat
  /\ IsNone(appliedFilters.maxPriceCents) \/ Val(appliedFilters.maxPriceCents) \in Nat
  /\ appliedFilters.sortBy \in VALID_SORT_KEYS
  /\ appliedFilters.page \in Nat /\ appliedFilters.page >= 1

\* a draft with a negative maximum price was committed
C30_Witness ==
  /\ lastEvent.op = "applyFilters"
  /\ lastOp.op = "effects"
  /\ draftMaxPrice = Some(0 - 1000)
  /\ appliedFilters.maxPriceCents = Some(0)
  /\ Len(requests) = 2


====
